---- MODULE Spec2Model ----
(***************************************************************************)
(* Model of csv_to_xlsx.py: the answer parser (parse_answers), the grouper *)
(* (process_csv), the spreadsheet renderer (write_xlsx), the print-table   *)
(* renderer (write_latex_pdf / compile_latex), the summary renderer        *)
(* (write_summary_pdf) and the driver (main).                              *)
(*                                                                         *)
(* Python str values are TLA+ strings; Len, SubSeq and \o act on them as   *)
(* len(), slicing and +.  A Python value that may be a str or an int (an   *)
(* answer value, a spreadsheet cell) is a tagged pair <<"str", s>>,        *)
(* <<"int", n>> or <<"float", s>>.                                         *)
(***************************************************************************)
EXTENDS Integers, Sequences, FiniteSets, TLC

VARIABLES
    field_content,  \* parse_answers: its argument
    results,        \* parse_answers: the list it returned
    pa_pc,          \* parse_answers: "call" before the call, "return" after it
    directory,      \* the *.csv files of the script directory: name -> file
    verbose,        \* args.verbose
    csv_files,      \* main: the sorted list of file names
    file_idx,       \* main: index of the file the loop of line 460 is at
    all_stats,      \* main: all_stats
    groups,         \* process_csv: sorted(groups.items()), a list of [key, records]
    group_idx,      \* process_csv: index of the group the loop of line 419 is at
    stats,          \* process_csv: stats
    disk,           \* the output directory: file name -> content
    summary_calls,  \* the calls of write_summary_pdf: the stats and total of each
    pc,             \* main: "main", "groups" (inside process_csv), "done", "aborted"
    error           \* the exception that ended the run, "" when none

pvars == <<field_content, results, pa_pc>>

dvars == <<directory, verbose, csv_files, file_idx, all_stats, groups, group_idx,
           stats, disk, summary_calls, pc, error>>

vars == <<pvars, dvars>>

(***************************************************************************)
(* Bounds of the model.                                                    *)
(***************************************************************************)
MaxLines == 3
MaxFiles == 2
MaxRows == 2

(***************************************************************************)
(* Python string primitives.                                               *)
(***************************************************************************)
\* str.isspace() for one character, on the whitespace of the model's inputs
IsSpace(c) == c \in {" ", "\t", "\r", "\n"}

RECURSIVE LStrip(_)
LStrip(s) ==
    IF Len(s) > 0 /\ IsSpace(SubSeq(s, 1, 1))
    THEN LStrip(SubSeq(s, 2, Len(s)))
    ELSE s

RECURSIVE RStrip(_)
RStrip(s) ==
    IF Len(s) > 0 /\ IsSpace(SubSeq(s, Len(s), Len(s)))
    THEN RStrip(SubSeq(s, 1, Len(s) - 1))
    ELSE s

\* str.strip()
Strip(s) == RStrip(LStrip(s))

\* str.find(sub) + 1: the 1-based index of the first occurrence, 0 when none
RECURSIVE FindFrom(_, _, _)
FindFrom(s, sub, i) ==
    IF i + Len(sub) - 1 > Len(s) THEN 0
    ELSE IF SubSeq(s, i, i + Len(sub) - 1) = sub THEN i
    ELSE FindFrom(s, sub, i + 1)

Find(s, sub) == FindFrom(s, sub, 1)

\* sub in s
Contains(s, sub) == Find(s, sub) # 0

\* str.split(sep): every piece between occurrences of sep
RECURSIVE Split(_, _)
Split(s, sep) ==
    LET i == Find(s, sep)
    IN  IF i = 0
        THEN <<s>>
        ELSE <<SubSeq(s, 1, i - 1)>> \o Split(SubSeq(s, i + Len(sep), Len(s)), sep)

\* str.split(sep, 1) of a string that contains sep: the text before the first
\* occurrence and the text after it
Split1(s, sep) ==
    LET i == Find(s, sep)
    IN  <<SubSeq(s, 1, i - 1), SubSeq(s, i + Len(sep), Len(s))>>

Digits == "0123456789"

\* str(n) for n >= 0, as an f-string formats it
RECURSIVE IntToStr(_)
IntToStr(n) ==
    IF n < 10 THEN SubSeq(Digits, n + 1, n + 1)
    ELSE IntToStr(n \div 10) \o SubSeq(Digits, (n % 10) + 1, (n % 10) + 1)

(***************************************************************************)
(* The grading tables.                                                     *)
(***************************************************************************)
BEWERTUNG_KEY == "Bitte geben Sie die Bewertung vom Zeugnis ein."

BEWERTUNG_RENAME == (1 :> "AV") @@ (2 :> "SV")

BEWERTUNG_WERTE ==
    ("verdient besondere Anerkennung" :> 10) @@
    ("entspricht den Erwartungen in vollem Umfang" :> 20) @@
    ("entspricht den Erwartungen" :> 30) @@
    ("entspricht den Erwartungen mit Einschränkungen" :> 40) @@
    ("entspricht nicht den Erwartungen" :> 50)

(***************************************************************************)
(* parse_answers.                                                          *)
(***************************************************************************)
\* LineSkipped without the test for the separator
LineSkipped_BlankOnly(line) == line = ""

\* the test of line 65, on the stripped line: the line is passed over
LineSkipped(line) == line = "" \/ ~Contains(line, ": ")

\* seen.get(key, 0) + 1
NextCount(seen, key) == (IF key \in DOMAIN seen THEN seen[key] ELSE 0) + 1

\* BewertungColName without the renaming of the first two occurrences
BewertungColName_NoRename(count) == "Bewertung (" \o IntToStr(count) \o ")"

\* BEWERTUNG_RENAME.get(count, f"Bewertung ({count})")
BewertungColName(count) ==
    IF count \in DOMAIN BEWERTUNG_RENAME
    THEN BEWERTUNG_RENAME[count]
    ELSE "Bewertung (" \o IntToStr(count) \o ")"

\* BEWERTUNG_WERTE.get(value, value)
BewertungValue(value) ==
    IF value \in DOMAIN BEWERTUNG_WERTE
    THEN <<"int", BEWERTUNG_WERTE[value]>>
    ELSE <<"str", value>>

\* key if count == 1 else f"{key} ({count})"
PlainColName(key, count) ==
    IF count = 1 THEN key ELSE key \o " (" \o IntToStr(count) \o ")"

\* the body of the loop of lines 63-81 for the lines from index i on
RECURSIVE ParseLines(_, _, _, _)
ParseLines(lines, i, seen, acc) ==
    IF i > Len(lines) THEN acc
    ELSE
        LET line == Strip(lines[i])
        IN  IF LineSkipped(line)
            THEN ParseLines(lines, i + 1, seen, acc)
            ELSE
                LET kv    == Split1(line, ": ")
                    key   == Strip(kv[1])
                    value == Strip(kv[2])
                    count == NextCount(seen, key)
                    seen2 == (key :> count) @@ seen
                    entry == IF key = BEWERTUNG_KEY
                             THEN <<BewertungColName(count), BewertungValue(value)>>
                             ELSE <<PlainColName(key, count), <<"str", value>>>>
                IN  ParseLines(lines, i + 1, seen2, Append(acc, entry))

parse_answers(content) ==
    IF content = "" \/ Strip(content) = ""
    THEN <<>>
    ELSE ParseLines(Split(content, "\n"), 1, <<>>, <<>>)

(***************************************************************************)
(* Inputs of the answer parser: fields of up to MaxLines lines.            *)
(***************************************************************************)
LinePool ==
    { "X: a", " X : b: c", "X (2): c", "AV: 1", "Kunst: ", "ohne Trenner", "",
      BEWERTUNG_KEY \o ": entspricht den Erwartungen",
      BEWERTUNG_KEY \o ":  verdient besondere Anerkennung ",
      BEWERTUNG_KEY \o ": gut" }

RECURSIVE Join(_, _)
Join(lines, sep) ==
    IF Len(lines) = 0 THEN ""
    ELSE IF Len(lines) = 1 THEN lines[1]
    ELSE lines[1] \o sep \o Join(Tail(lines), sep)

LineSeqs == UNION {[1..n -> LinePool] : n \in 0..MaxLines}

FieldPool == {Join(ls, "\n") : ls \in LineSeqs}

\* the driver before main starts, in an empty directory
DriverIdle ==
    /\ directory = <<>> /\ verbose = FALSE /\ csv_files = <<>> /\ file_idx = 1
    /\ all_stats = <<>> /\ groups = <<>> /\ group_idx = 1 /\ stats = <<>>
    /\ disk = <<>> /\ summary_calls = <<>> /\ pc = "main" /\ error = ""

InitParse ==
    /\ field_content \in FieldPool
    /\ results = <<>>
    /\ pa_pc = "call"
    /\ DriverIdle

CallParseAnswers ==
    /\ pa_pc = "call"
    /\ results' = parse_answers(field_content)
    /\ pa_pc' = "return"
    /\ UNCHANGED <<field_content, dvars>>

NextParse == CallParseAnswers

SpecParse == InitParse /\ [][NextParse]_vars

(***************************************************************************)
(* Ordering and case of strings.                                           *)
(***************************************************************************)
\* the characters of the model's inputs in code point order
CodeOrder == "\t\n\r ()-./0123456789:ABCDEFGHIJKLMNOPQRSTUVWXYZ_abcdefghijklmnopqrstuvwxyz"

UpperCase == "ABCDEFGHIJKLMNOPQRSTUVWXYZ"
LowerCase == "abcdefghijklmnopqrstuvwxyz"

Chars(s) == {SubSeq(s, i, i) : i \in 1..Len(s)}

OrdTable == [c \in Chars(CodeOrder) |-> Find(CodeOrder, c)]

LowerTable == [c \in Chars(UpperCase) |-> SubSeq(LowerCase, Find(UpperCase, c), Find(UpperCase, c))]

\* ord(c), up to a monotone renumbering
Ord(c) == OrdTable[c]

\* a < b for str
RECURSIVE StrLess(_, _)
StrLess(a, b) ==
    IF b = "" THEN FALSE
    ELSE IF a = "" THEN TRUE
    ELSE IF SubSeq(a, 1, 1) = SubSeq(b, 1, 1)
         THEN StrLess(SubSeq(a, 2, Len(a)), SubSeq(b, 2, Len(b)))
         ELSE Ord(SubSeq(a, 1, 1)) < Ord(SubSeq(b, 1, 1))

\* str.lower()
RECURSIVE Lower(_)
Lower(s) ==
    IF s = "" THEN s
    ELSE LET c == SubSeq(s, 1, 1)
         IN  (IF c \in DOMAIN LowerTable THEN LowerTable[c] ELSE c)
             \o Lower(SubSeq(s, 2, Len(s)))

\* str.startswith(prefix)
StartsWith(s, prefix) == Len(s) >= Len(prefix) /\ SubSeq(s, 1, Len(prefix)) = prefix

\* list.sort(key=...) / sorted(..., key=...) of seq, whose keys compare as
\* less[i][j] says (key i < key j): the sort is stable, element i comes after
\* the elements of lesser key and after the earlier elements whose key its key
\* is not less than
StableSorted(seq, less) ==
    LET before == [i \in DOMAIN seq |->
                      Cardinality({j \in DOMAIN seq :
                                      \/ less[j][i]
                                      \/ j < i /\ ~less[i][j]})]
    IN  [p \in DOMAIN seq |-> seq[CHOOSE i \in DOMAIN seq : before[i] = p - 1]]

(***************************************************************************)
(* int() and float() of a str.                                             *)
(***************************************************************************)
IsDigits(s) == s # "" /\ \A i \in 1..Len(s) : Contains(Digits, SubSeq(s, i, i))

RECURSIVE DigitsValue(_)
DigitsValue(s) ==
    IF s = "" THEN 0
    ELSE DigitsValue(SubSeq(s, 1, Len(s) - 1)) * 10 + (Find(Digits, SubSeq(s, Len(s), Len(s))) - 1)

\* the sign and the digits of a stripped literal
Unsigned(t) == IF StartsWith(t, "-") \/ StartsWith(t, "+") THEN SubSeq(t, 2, Len(t)) ELSE t

\* int(s) succeeds
IntParses(s) == IsDigits(Unsigned(Strip(s)))

\* int(s) when it succeeds
IntValue(s) ==
    LET t == Strip(s)
    IN  IF StartsWith(t, "-") THEN 0 - DigitsValue(Unsigned(t)) ELSE DigitsValue(Unsigned(t))

\* float(s) succeeds, for the decimal literals d.d, d. and .d
FloatParses(s) ==
    LET t == Unsigned(Strip(s))
        d == Find(t, ".")
    IN  \/ IsDigits(t)
        \/ /\ d # 0
           /\ Len(t) > 1
           /\ \A i \in 1..Len(t) : i # d => Contains(Digits, SubSeq(t, i, i))

(***************************************************************************)
(* Records and files.  A record is one row of a file: the fields the       *)
(* grouper and the renderers read, and row, its position in the file.      *)
(*   Name     "Schüler:in Name"                                            *)
(*   Vorname  "Schüler:in Vorname"                                         *)
(*   Gruppe   GROUP_COLUMN                                                 *)
(*   Rang     "Schüler:in Bewerbung Prioritaetsrang"                       *)
(*   Fragen   GRADES_COLUMN                                                *)
(***************************************************************************)
Rec(name, vorname, gruppe, rang, fragen) ==
    [Name |-> name, Vorname |-> vorname, Gruppe |-> gruppe, Rang |-> rang, Fragen |-> fragen]

\* csv.DictReader: the rows in file order
Rows(recs) ==
    [i \in DOMAIN recs |->
        [row |-> i, Name |-> recs[i].Name, Vorname |-> recs[i].Vorname,
         Gruppe |-> recs[i].Gruppe, Rang |-> recs[i].Rang, Fragen |-> recs[i].Fragen]]

RecordPool ==
    { Rec("abel", "Zoe", "BG2", "10", "X: a\nX: b\nX (2): c"),
      Rec("Abel", "Zoe", " BG2 ", "", "Kunst: 1\nX: a"),
      Rec("Berg", "Udo", "FG/1", "2",
          "Kunst: 3\n" \o BEWERTUNG_KEY \o ": entspricht den Erwartungen") }

\* a file: whether one of the encodings decodes it, whether its header has
\* GRADES_COLUMN, and its rows
File(decodable, has_grades, recs) ==
    [decodable |-> decodable, has_grades |-> has_grades, records |-> Rows(recs)]

\* the files of fixed content a directory may hold
FixedFiles ==
    ("binaer.csv" :> File(FALSE, FALSE, <<>>)) @@
    ("klassen.csv" :> File(TRUE, TRUE,
                           << Rec("Zorn", "Ida", "A/B", "1", ""),
                              Rec("Lenz", "Eva", "  ", "", "Kunst: 2"),
                              Rec("Berg", "Udo", "A-B", "3", "Kunst: 2.5") >>)) @@
    ("leer.csv" :> File(TRUE, TRUE, <<>>)) @@
    ("ohne_spalte.csv" :> File(TRUE, FALSE, << Rec("Kurz", "Tom", "FG1", "1", "") >>)) @@
    ("rang.csv" :> File(TRUE, TRUE,
                        << Rec("Kurz", "Tom", "FG1", "abc", "Kunst: 4"),
                           Rec("Lang", "Ben", "FG1", "1", "Mathe: 1") >>))

\* zusagen.csv holds any rows of the pool, up to MaxRows of them
ZusagenFiles ==
    {File(TRUE, TRUE, recs) : recs \in UNION {[1..n -> RecordPool] : n \in 1..MaxRows}}

CsvNames == DOMAIN FixedFiles \cup {"zusagen.csv"}

\* the directories: up to MaxFiles files, each under its name
Directories ==
    { [n \in names |-> IF n = "zusagen.csv" THEN z ELSE FixedFiles[n]] :
          names \in {S \in SUBSET CsvNames : Cardinality(S) <= MaxFiles},
          z \in ZusagenFiles }

(***************************************************************************)
(* The output directory.                                                   *)
(***************************************************************************)
\* the directory with content written to path
Written(d, path, content) == (path :> content) @@ d

\* os.remove(path) if os.path.exists(path)
Removed(d, path) == [p \in DOMAIN d \ {path} |-> d[p]]

\* str.replace(old, new)
RECURSIVE ReplaceAll(_, _, _)
ReplaceAll(s, old, new) ==
    IF Len(s) < Len(old) THEN s
    ELSE IF StartsWith(s, old)
         THEN new \o ReplaceAll(SubSeq(s, Len(old) + 1, Len(s)), old, new)
         ELSE SubSeq(s, 1, 1) \o ReplaceAll(SubSeq(s, 2, Len(s)), old, new)

\* os.path.splitext(path)[0] of a file name
SplitExtBase(path) ==
    LET dots == {i \in 2..Len(path) : SubSeq(path, i, i) = "."}
    IN  IF dots = {} THEN path
        ELSE SubSeq(path, 1, (CHOOSE i \in dots : \A j \in dots : j <= i) - 1)

(***************************************************************************)
(* write_xlsx: the answer columns and the answer cells of the sheet.       *)
(***************************************************************************)
\* the loop of lines 109-113 for the records from index i on
RECURSIVE CollectCols(_, _, _)
CollectCols(records, i, cols) ==
    IF i > Len(records) THEN cols
    ELSE
        LET answers == parse_answers(records[i].Fragen)
            \* a name is appended once, at its first entry
            fresh == [k \in DOMAIN answers |->
                        /\ \A j \in DOMAIN cols : cols[j] # answers[k][1]
                        /\ \A j \in 1..(k - 1) : answers[j][1] # answers[k][1]]
            idx == SelectSeq([k \in DOMAIN answers |-> k], LAMBDA k : fresh[k])
        IN  CollectCols(records, i + 1, cols \o [k \in DOMAIN idx |-> answers[idx[k]][1]])

all_answer_cols(records) == CollectCols(records, 1, <<>>)

\* dict(answers).get(col_name, ""): the value of the last entry of that name
AnswerDictGet(answers, col_name) ==
    LET at == {k \in DOMAIN answers : answers[k][1] = col_name}
    IN  IF at = {} THEN <<"str", "">>
        ELSE answers[CHOOSE k \in at : \A j \in at : j <= k][2]

\* lines 146-152: int(value), else float(value), else the value
Coerce(value) ==
    IF value[1] # "str" THEN value
    ELSE IF IntParses(value[2]) THEN <<"int", IntValue(value[2])>>
    ELSE IF FloatParses(value[2]) THEN <<"float", Strip(value[2])>>
    ELSE value

\* the cells of one record under the answer columns
AnswerCells(rec, cols) ==
    LET answers == parse_answers(rec.Fragen)
    IN  [c \in DOMAIN cols |-> Coerce(AnswerDictGet(answers, cols[c]))]

write_xlsx(records) ==
    LET cols == all_answer_cols(records)
    IN  [type |-> "xlsx", answer_cols |-> cols,
         rows |-> [i \in DOMAIN records |->
                      [rec |-> records[i], cells |-> AnswerCells(records[i], cols)]]]

(***************************************************************************)
(* write_latex_pdf and compile_latex.                                      *)
(***************************************************************************)
RANK_DEFAULT == 999

\* int(r.get("Schüler:in Bewerbung Prioritaetsrang", "") or 999) raises ValueError
RankRaises(r) == r.Rang # "" /\ ~IntParses(r.Rang)

\* the rank the sort of line 187 uses
RankKey(r) == IF r.Rang = "" THEN RANK_DEFAULT ELSE IntValue(r.Rang)

\* the key of lines 187-191
RankSortKey(r) == <<RankKey(r), Lower(r.Name), Lower(r.Vorname)>>

\* a < b for tuples (int, str, str)
RankSortKeyLess(a, b) ==
    \/ a[1] < b[1]
    \/ /\ a[1] = b[1]
       /\ \/ StrLess(a[2], b[2])
          \/ a[2] = b[2] /\ StrLess(a[3], b[3])

\* the typesetting source of a group: its rows in rank order
GroupTex(records) ==
    LET keys == [i \in DOMAIN records |-> RankSortKey(records[i])]
        less == [i \in DOMAIN records |->
                    [j \in DOMAIN records |-> RankSortKeyLess(keys[i], keys[j])]]
    IN  [type |-> "tex", doc |-> "group", rows |-> StableSorted(records, less)]

\* what one run of compile_latex can meet: both passes run and a pdf results
\* ("ok"), both run and none results ("fail"), pdflatex is not found
\* ("missing"), the first or the second pass exceeds the timeout
EngineReturns == {"ok", "fail", "missing"}
EngineRaises == {"timeout1", "timeout2"}

\* the directory after compile_latex(tex_path, verbose) met outcome
compile_latex(d, tex_path, outcome) ==
    LET base     == SplitExtBase(tex_path)
        pdf_path == base \o ".pdf"
        log_path == base \o ".log"
        logged   == Written(d, log_path, [type |-> "log"])
        pdf      == [type |-> "pdf", doc |-> d[tex_path].doc, rows |-> d[tex_path].rows]
        ran      == IF outcome \in {"ok", "timeout2"}
                    THEN Written(logged, pdf_path, pdf) ELSE logged
    IN  IF outcome \in {"missing", "timeout1", "timeout2"} THEN ran
        ELSE IF verbose THEN ran
        ELSE Removed(Removed(ran, tex_path), log_path)

\* the directory after write_latex_pdf(records, pdf_path, ...) when its sort
\* does not raise
write_latex_pdf(d, records, pdf_path, outcome) ==
    LET tex_path == ReplaceAll(pdf_path, ".pdf", ".tex")
    IN  compile_latex(Written(d, tex_path, GroupTex(records)), tex_path, outcome)

RECURSIVE SumCounts(_)
SumCounts(st) == IF st = <<>> THEN 0 ELSE st[1][2] + SumCounts(Tail(st))

\* the directory after write_summary_pdf(stats, pdf_path, verbose)
write_summary_pdf(d, st, pdf_path, outcome) ==
    LET tex_path == ReplaceAll(pdf_path, ".pdf", ".tex")
        tex == [type |-> "tex", doc |-> "summary", rows |-> Append(st, <<"Gesamt", SumCounts(st)>>)]
    IN  compile_latex(Written(d, tex_path, tex), tex_path, outcome)

(***************************************************************************)
(* process_csv.                                                            *)
(***************************************************************************)
\* FileSkipped without the test of the header
FileSkipped_EmptyOnly(f) == f.records = <<>>

\* lines 402 and 406: the file is passed over
FileSkipped(f) == f.records = <<>> \/ ~f.has_grades

\* rec.get(GROUP_COLUMN, "").strip() or "unbekannt"
GroupKey(rec) == IF Strip(rec.Gruppe) = "" THEN "unbekannt" ELSE Strip(rec.Gruppe)

\* the loop of lines 412-414: the buckets in the order their keys first appear
RECURSIVE Bucketed(_, _, _)
Bucketed(records, i, acc) ==
    IF i > Len(records) THEN acc
    ELSE
        LET key == GroupKey(records[i])
            at  == {k \in DOMAIN acc : acc[k].key = key}
        IN  IF at = {}
            THEN Bucketed(records, i + 1,
                          Append(acc, [key |-> key, records |-> <<records[i]>>]))
            ELSE Bucketed(records, i + 1,
                          [acc EXCEPT ![CHOOSE k \in at : TRUE].records = Append(@, records[i])])

\* sorted(groups.items()): the items compare by their keys, which differ
SortedItems(items) ==
    StableSorted(items, [i \in DOMAIN items |->
                            [j \in DOMAIN items |-> StrLess(items[i].key, items[j].key)]])

SortedGroups(records) == SortedItems(Bucketed(records, 1, <<>>))

\* NameSortKey without the lower-casing
NameSortKey_CaseSensitive(r) == <<r.Name, r.Vorname>>

\* the key of lines 421-424
NameSortKey(r) == <<Lower(r.Name), Lower(r.Vorname)>>

\* a < b for tuples (str, str)
NameSortKeyLess(a, b) ==
    \/ StrLess(a[1], b[1])
    \/ a[1] = b[1] /\ StrLess(a[2], b[2])

\* bildungsgang.replace("/", "-")
SafeName(bildungsgang) == ReplaceAll(bildungsgang, "/", "-")

\* stats.append((bildungsgang, len(group_records)))
StatsEntry(g) == <<g.key, Len(g.records)>>

\* Extended as an assignment, all_stats = process_csv(...)
Extended_Replaced(all, st) == st

\* all_stats.extend(...)
Extended(all, st) == all \o st

(***************************************************************************)
(* main.                                                                   *)
(***************************************************************************)
\* sorted(glob.glob(...)) of a set of names
RECURSIVE SortedNames(_)
SortedNames(S) ==
    IF S = {} THEN <<>>
    ELSE LET m == CHOOSE x \in S : \A y \in S \ {x} : StrLess(x, y)
         IN  <<m>> \o SortedNames(S \ {m})

CurrentFile == directory[csv_files[file_idx]]

ParserIdle == field_content = "" /\ results = <<>> /\ pa_pc = "call"

Init ==
    /\ ParserIdle
    /\ directory \in Directories
    /\ verbose \in BOOLEAN
    /\ csv_files = SortedNames(DOMAIN directory)
    /\ file_idx = 1
    /\ all_stats = <<>>
    /\ groups = <<>>
    /\ group_idx = 1
    /\ stats = <<>>
    /\ disk = <<>>
    /\ summary_calls = <<>>
    /\ pc = "main"
    /\ error = ""

\* lines 454-456: no file, main returns
NoCsvFiles ==
    /\ pc = "main" /\ csv_files = <<>>
    /\ pc' = "done"
    /\ UNCHANGED <<pvars, directory, verbose, csv_files, file_idx, all_stats, groups,
                   group_idx, stats, disk, summary_calls, error>>

\* line 401: read_csv raises RuntimeError, no encoding decodes the file
ReadFails ==
    /\ pc = "main" /\ file_idx <= Len(csv_files)
    /\ ~CurrentFile.decodable
    /\ pc' = "aborted"
    /\ error' = "RuntimeError"
    /\ UNCHANGED <<pvars, directory, verbose, csv_files, file_idx, all_stats, groups,
                   group_idx, stats, disk, summary_calls>>

\* lines 402-408: process_csv returns [], which main extends all_stats by
SkipFile ==
    /\ pc = "main" /\ file_idx <= Len(csv_files)
    /\ CurrentFile.decodable
    /\ FileSkipped(CurrentFile)
    /\ all_stats' = Extended(all_stats, <<>>)
    /\ file_idx' = file_idx + 1
    /\ UNCHANGED <<pvars, directory, verbose, csv_files, groups, group_idx, stats,
                   disk, summary_calls, pc, error>>

\* lines 410-417: the records are bucketed, the loop over the groups begins
GroupFile ==
    /\ pc = "main" /\ file_idx <= Len(csv_files)
    /\ CurrentFile.decodable
    /\ ~FileSkipped(CurrentFile)
    /\ groups' = SortedGroups(CurrentFile.records)
    /\ group_idx' = 1
    /\ stats' = <<>>
    /\ pc' = "groups"
    /\ UNCHANGED <<pvars, directory, verbose, csv_files, file_idx, all_stats, disk,
                   summary_calls, error>>

\* group_records.sort(key=...)
SortedByName(records) ==
    LET keys == [i \in DOMAIN records |-> NameSortKey(records[i])]
        less == [i \in DOMAIN records |->
                    [j \in DOMAIN records |-> NameSortKeyLess(keys[i], keys[j])]]
    IN  StableSorted(records, less)

\* the group of the current iteration, after group_records.sort(...)
SortedGroup == [key |-> groups[group_idx].key,
                records |-> SortedByName(groups[group_idx].records)]

XlsxPath(g) == SafeName(g.key) \o ".xlsx"
PdfPath(g) == SafeName(g.key) \o ".pdf"

\* the sort of write_latex_pdf raises ValueError
SortRaises(records) == \E i \in DOMAIN records : RankRaises(records[i])

\* lines 419-439: one iteration of the loop over the groups.  The records are
\* sorted and the spreadsheet is written; then the sort of write_latex_pdf
\* raises ValueError, or compile_latex meets one of its outcomes: it returns
\* and the stats are appended, or subprocess.run raises TimeoutExpired, which
\* nothing catches
RenderGroup ==
    /\ pc = "groups" /\ group_idx <= Len(groups)
    /\ \E g \in {SortedGroup} :
       \E saved \in {Written(disk, XlsxPath(g), write_xlsx(g.records))} :
           /\ groups' = [groups EXCEPT ![group_idx] = g]
           /\ IF SortRaises(g.records)
              THEN /\ disk' = saved
                   /\ pc' = "aborted"
                   /\ error' = "ValueError"
                   /\ UNCHANGED <<stats, group_idx>>
              ELSE \E outcome \in EngineReturns \cup EngineRaises :
                      /\ disk' = write_latex_pdf(saved, g.records, PdfPath(g), outcome)
                      /\ IF outcome \in EngineRaises
                         THEN /\ pc' = "aborted"
                              /\ error' = "TimeoutExpired"
                              /\ UNCHANGED <<stats, group_idx>>
                         ELSE /\ stats' = Append(stats, StatsEntry(g))
                              /\ group_idx' = group_idx + 1
                              /\ UNCHANGED <<pc, error>>
    /\ UNCHANGED <<pvars, directory, verbose, csv_files, file_idx, all_stats,
                   summary_calls>>

\* lines 441-442 and 462: process_csv returns stats, main extends all_stats
ReturnStats ==
    /\ pc = "groups" /\ group_idx > Len(groups)
    /\ all_stats' = Extended(all_stats, stats)
    /\ file_idx' = file_idx + 1
    /\ pc' = "main"
    /\ UNCHANGED <<pvars, directory, verbose, csv_files, groups, group_idx, stats,
                   disk, summary_calls, error>>

SummaryCall == [stats |-> all_stats, total |-> SumCounts(all_stats)]

\* lines 464-469: the summary is rendered; compile_latex returns, or
\* subprocess.run raises TimeoutExpired
Summary ==
    /\ pc = "main" /\ csv_files # <<>> /\ file_idx > Len(csv_files)
    /\ all_stats # <<>>
    /\ summary_calls' = Append(summary_calls, SummaryCall)
    /\ \E outcome \in EngineReturns \cup EngineRaises :
           /\ disk' = write_summary_pdf(disk, all_stats, "uebersicht.pdf", outcome)
           /\ IF outcome \in EngineRaises
              THEN pc' = "aborted" /\ error' = "TimeoutExpired"
              ELSE pc' = "done" /\ UNCHANGED error
    /\ UNCHANGED <<pvars, directory, verbose, csv_files, file_idx, all_stats, groups,
                   group_idx, stats>>

\* lines 464 and 469: no group was produced, no summary is rendered
NoSummary ==
    /\ pc = "main" /\ csv_files # <<>> /\ file_idx > Len(csv_files)
    /\ all_stats = <<>>
    /\ pc' = "done"
    /\ UNCHANGED <<pvars, directory, verbose, csv_files, file_idx, all_stats, groups,
                   group_idx, stats, disk, summary_calls, error>>

Next ==
    \/ NoCsvFiles
    \/ ReadFails
    \/ SkipFile
    \/ GroupFile
    \/ RenderGroup
    \/ ReturnStats
    \/ Summary
    \/ NoSummary

Spec == Init /\ [][Next]_vars

(***************************************************************************)
(* What the claims about parse_answers speak of: the lines of the field,   *)
(* the raw key and raw value of a line, the occurrence number of a key.    *)
(***************************************************************************)
\* the lines whose trimmed text contains the separator
AcceptedLines(content) ==
    SelectSeq(Split(content, "\n"), LAMBDA l : Contains(Strip(l), ": "))

\* the non-blank lines that contain the separator
SeparatorLines(content) ==
    SelectSeq(Split(content, "\n"), LAMBDA l : Strip(l) # "" /\ Contains(l, ": "))

\* the trimmed text before the first separator of a line
RawKey(l) == Strip(SubSeq(l, 1, Find(l, ": ") - 1))

\* the trimmed text after the first separator of a line
RawValue(l) == Strip(SubSeq(l, Find(l, ": ") + 2, Len(l)))

RawKeys(ls) == [i \in DOMAIN ls |-> RawKey(ls[i])]
RawValues(ls) == [i \in DOMAIN ls |-> RawValue(ls[i])]

\* n such that entry i is the n-th of its key
Occurrence(keys, i) == Cardinality({j \in 1..i : keys[j] = keys[i]})

\* the value an entry carries for a line of that key and value
EntryValueOk(v, key, value) ==
    IF key = BEWERTUNG_KEY /\ value \in DOMAIN BEWERTUNG_WERTE
    THEN v = <<"int", BEWERTUNG_WERTE[value]>> /\ v[2] \in {10, 20, 30, 40, 50}
    ELSE v = <<"str", value>>

\* C1: the column names of one decomposition are pairwise distinct
C1_ColumnNamesDistinct ==
    pa_pc = "return" =>
        \A i, j \in DOMAIN results : i # j => results[i][1] # results[j][1]

\* the entries of the lines with the grading key: AV, SV, then stem (n)
GradingEntries(keys, values, stem) ==
    \A i \in DOMAIN keys :
        keys[i] = BEWERTUNG_KEY =>
            /\ i \in DOMAIN results
            /\ results[i][1] =
                   (IF Occurrence(keys, i) = 1 THEN "AV"
                    ELSE IF Occurrence(keys, i) = 2 THEN "SV"
                    ELSE stem \o " (" \o IntToStr(Occurrence(keys, i)) \o ")")
            /\ EntryValueOk(results[i][2], keys[i], values[i])

\* C2 as stated: the n-th line with the grading key yields AV (n = 1), SV (n = 2)
\* and the raw key followed by " (n)" for n >= 3; its value is the numeric code
\* of a grading phrase, and the text otherwise
C2_GradingKeyRawKeyNumbered ==
    pa_pc = "return" =>
        GradingEntries(RawKeys(AcceptedLines(field_content)),
                       RawValues(AcceptedLines(field_content)), BEWERTUNG_KEY)

\* C2 amended: the n-th accepted line with the grading key yields AV (n = 1),
\* SV (n = 2) and the fixed word "Bewertung" followed by " (n)" for n >= 3; its
\* value is the numeric code of a grading phrase, and the text otherwise
C2_GradingKeyColumns ==
    pa_pc = "return" =>
        GradingEntries(RawKeys(AcceptedLines(field_content)),
                       RawValues(AcceptedLines(field_content)), "Bewertung")

\* a field with three grading lines was parsed: AV with a code, SV, Bewertung (3)
C2_Witness ==
    /\ pa_pc = "return"
    /\ Len(results) = 3
    /\ results[1] = <<"AV", <<"int", 30>>>>
    /\ results[2] = <<"SV", <<"str", "gut">>>>
    /\ results[3] = <<"Bewertung (3)", <<"int", 10>>>>

\* the column name of the n-th line with a key
ExpectedName(key, n) ==
    IF key = BEWERTUNG_KEY
    THEN (IF n = 1 THEN "AV" ELSE IF n = 2 THEN "SV"
          ELSE "Bewertung (" \o IntToStr(n) \o ")")
    ELSE (IF n = 1 THEN key ELSE key \o " (" \o IntToStr(n) \o ")")

\* the entries are those of the lines of these keys and values, in order,
\* numbered among these lines alone
EntriesOf(keys, values) ==
    /\ Len(results) = Len(keys)
    /\ \A i \in DOMAIN keys :
           /\ results[i][1] = ExpectedName(keys[i], Occurrence(keys, i))
           /\ EntryValueOk(results[i][2], keys[i], values[i])

\* C3 as stated: one entry per non-blank line that contains the separator, in
\* line order, numbered as if the other lines were absent
C3_OneEntryPerSeparatorLine ==
    pa_pc = "return" =>
        /\ EntriesOf(RawKeys(SeparatorLines(field_content)),
                     RawValues(SeparatorLines(field_content)))
        /\ results = parse_answers(Join(SeparatorLines(field_content), "\n"))

\* C3 amended: one entry per line whose trimmed text contains the separator, in
\* line order, numbered as if the other lines were absent
C3_OneEntryPerAcceptedLine ==
    pa_pc = "return" =>
        /\ EntriesOf(RawKeys(AcceptedLines(field_content)),
                     RawValues(AcceptedLines(field_content)))
        /\ results = parse_answers(Join(AcceptedLines(field_content), "\n"))

\* a line without separator stood between two lines of one key
C3_Witness ==
    /\ pa_pc = "return"
    /\ field_content = "X: a\nohne Trenner\n X : b: c"
    /\ results = << <<"X", <<"str", "a">>>>, <<"X (2)", <<"str", "b: c">>>> >>

(***************************************************************************)
(* What the claims about the grouper, the renderers and the driver speak   *)
(* of.                                                                     *)
(***************************************************************************)
\* the spreadsheets and the group documents of the output directory
Sheets == {p \in DOMAIN disk : disk[p].type = "xlsx"}
GroupDocs == {p \in DOMAIN disk : disk[p].type \in {"tex", "pdf"} /\ disk[p].doc = "group"}

\* the file is one the claims call skipped: no data row, or no free-text field
NothingToRender(f) == f.decodable /\ (Len(f.records) = 0 \/ ~f.has_grades)

\* the column names of the decompositions of the records of a sheet, one
\* sequence per record
Decompositions(sheet) ==
    [i \in DOMAIN sheet.rows |->
        [k \in DOMAIN parse_answers(sheet.rows[i].rec.Fragen) |->
            parse_answers(sheet.rows[i].rec.Fragen)[k]]]

\* the places <<i, k>> where the name occurs: record i, entry k
PlacesOf(dec, name) ==
    {ik \in UNION {{<<i, k>> : k \in DOMAIN dec[i]} : i \in DOMAIN dec} :
        dec[ik[1]][ik[2]][1] = name}

\* place a comes before place b
PlaceBefore(a, b) == a[1] < b[1] \/ (a[1] = b[1] /\ a[2] < b[2])

\* some place of name a comes before every place of name b
FirstSeenBefore(dec, a, b) ==
    \E x \in PlacesOf(dec, a) : \A y \in PlacesOf(dec, b) : PlaceBefore(x, y)

\* cols is the ordered union, in first-seen order, of the names of dec
OrderedUnion(cols, dec) ==
    /\ \A c \in DOMAIN cols : PlacesOf(dec, cols[c]) # {}
    /\ \A i \in DOMAIN dec : \A k \in DOMAIN dec[i] :
           \E c \in DOMAIN cols : cols[c] = dec[i][k][1]
    /\ \A c, e \in DOMAIN cols : c < e => FirstSeenBefore(dec, cols[c], cols[e])

\* the cells of row i: empty under a column the record lacks, the record's
\* value (as a number when it reads as one) under a column it has
CellsHoldValues(sheet, dec, i) ==
    \A c \in DOMAIN sheet.answer_cols :
        LET at == {k \in DOMAIN dec[i] : dec[i][k][1] = sheet.answer_cols[c]}
        IN  /\ at = {} => sheet.rows[i].cells[c] = <<"str", "">>
            /\ \A k \in at : sheet.rows[i].cells[c] = Coerce(dec[i][k][2])

SheetOk(sheet, dec) ==
    /\ OrderedUnion(sheet.answer_cols, dec)
    /\ \A i \in DOMAIN sheet.rows : CellsHoldValues(sheet, dec, i)

\* C4: the answer columns of every spreadsheet are the ordered union, in
\* first-seen order, of the column names of its records' decompositions; a
\* cell under a column the record lacks is empty, a cell under a column it has
\* holds the record's value for it
C4_SheetHoldsUnionAndValues ==
    \A p \in Sheets : SheetOk(disk[p], Decompositions(disk[p]))

\* the records of a bucket are in the order of (lower-cased surname, lower-cased
\* given name), equal pairs in file order
BucketOrdered(recs) ==
    \A i, j \in DOMAIN recs :
        i < j =>
            LET a == <<Lower(recs[i].Name), Lower(recs[i].Vorname)>>
                b == <<Lower(recs[j].Name), Lower(recs[j].Vorname)>>
            IN  \/ StrLess(a[1], b[1])
                \/ a[1] = b[1] /\ StrLess(a[2], b[2])
                \/ a = b /\ recs[i].row < recs[j].row

\* the places <<b, i>> of the buckets that hold row r of the file
BucketsOf(r) ==
    {bi \in UNION {{<<b, i>> : i \in DOMAIN groups[b].records} : b \in DOMAIN groups} :
        groups[bi[1]].records[bi[2]] = r}

RECURSIVE TotalLen(_)
TotalLen(gs) == IF gs = <<>> THEN 0 ELSE Len(gs[1].records) + TotalLen(Tail(gs))

\* the trimmed group field of a record
TrimmedGroup(rec) == Strip(rec.Gruppe)

\* the trimmed group field of a record, "unbekannt" when that is empty
TrimmedGroupOrDefault(rec) == IF Strip(rec.Gruppe) = "" THEN "unbekannt" ELSE Strip(rec.Gruppe)

\* inside process_csv: every record is in exactly one bucket, that of its key; the
\* buckets the loop has rendered are ordered; the bucket keys ascend
Grouped(with_default) ==
    pc = "groups" =>
        /\ \A n \in DOMAIN CurrentFile.records :
               /\ Cardinality(BucketsOf(CurrentFile.records[n])) = 1
               /\ \A bi \in BucketsOf(CurrentFile.records[n]) :
                      groups[bi[1]].key =
                          (IF with_default THEN TrimmedGroupOrDefault(CurrentFile.records[n])
                           ELSE TrimmedGroup(CurrentFile.records[n]))
        /\ TotalLen(groups) = Len(CurrentFile.records)
        /\ \A b \in DOMAIN groups : b < group_idx => BucketOrdered(groups[b].records)
        /\ \A b, c \in DOMAIN groups : b < c => StrLess(groups[b].key, groups[c].key)

C6_OneSpreadsheetPerGroup ==
    (pc = "groups" /\ group_idx > Len(groups)) =>
        /\ Cardinality({ReplaceAll(groups[b].key, "/", "-") \o ".xlsx" : b \in DOMAIN groups})
               = Len(groups)
        /\ \A b \in DOMAIN groups :
               LET path == ReplaceAll(groups[b].key, "/", "-") \o ".xlsx"
               IN  /\ path \in Sheets
                   /\ [i \in DOMAIN disk[path].rows |-> disk[path].rows[i].rec]
                          = groups[b].records

\* C7: the run never ends because the typesetting engine is unavailable, fails
\* or exceeds its time budget
C7_EngineTroubleNeverAborts ==
    ~(pc = "aborted" /\ error = "TimeoutExpired")

\* the rank a record sorts by: its integer, the sentinel when it has none
RankOrSentinel(r) == IF IntParses(r.Rang) THEN IntValue(r.Rang) ELSE 999

\* the rows of a group document are in the order of (rank, surname, given name)
RankOrdered(rows) ==
    \A i, j \in DOMAIN rows :
        i < j =>
            \/ RankOrSentinel(rows[i]) < RankOrSentinel(rows[j])
            \/ /\ RankOrSentinel(rows[i]) = RankOrSentinel(rows[j])
               /\ ~StrLess(Lower(rows[j].Name), Lower(rows[i].Name))
               /\ (Lower(rows[j].Name) = Lower(rows[i].Name)
                      => ~StrLess(Lower(rows[j].Vorname), Lower(rows[i].Vorname)))

\* C8: every group document is ordered by (rank, surname, given name), a rank
\* that is absent, blank or no integer counting as the sentinel; the sort never
\* raises
C8_UnparseableRankSortsLast ==
    /\ error # "ValueError"
    /\ \A p \in GroupDocs : RankOrdered(disk[p].rows)

\* file names ascend along csv_files
NamesSorted == \A i, j \in DOMAIN csv_files : i < j => StrLess(csv_files[i], csv_files[j])

\* C9: a file with no data row, or without the free-text field in its header,
\* writes no file and adds no stats, and main goes on with the next file of the
\* sorted list
C9_SkippedFileWritesNothing ==
    /\ []NamesSorted
    /\ [][(pc = "main" /\ file_idx <= Len(csv_files) /\ NothingToRender(CurrentFile))
             => (disk' = disk /\ all_stats' = all_stats /\ summary_calls' = summary_calls
                 /\ file_idx' = file_idx + 1 /\ pc' = "main")]_vars

\* a skipped file lies behind, nothing was written, a later file is being rendered
C9_Witness ==
    /\ pc = "groups" /\ file_idx = 2
    /\ NothingToRender(directory[csv_files[1]])
    /\ disk = <<>> /\ all_stats = <<>>

\* the distinct group keys of the records, ascending
KeysOf(records) == SortedNames({TrimmedGroupOrDefault(records[n]) : n \in DOMAIN records})

\* one (group key, record count) pair per group of a file, ascending by key
FileStats(f) ==
    IF NothingToRender(f) THEN <<>>
    ELSE [k \in DOMAIN KeysOf(f.records) |->
             <<KeysOf(f.records)[k],
               Cardinality({n \in DOMAIN f.records :
                               TrimmedGroupOrDefault(f.records[n]) = KeysOf(f.records)[k]})>>]

\* the pairs of the files from index i on, in the order of csv_files
RECURSIVE RunStats(_)
RunStats(i) ==
    IF i > Len(csv_files) THEN <<>>
    ELSE FileStats(directory[csv_files[i]]) \o RunStats(i + 1)

\* the records of the files that are not skipped
RECURSIVE RunRecords(_)
RunRecords(i) ==
    IF i > Len(csv_files) THEN 0
    ELSE (IF NothingToRender(directory[csv_files[i]]) THEN 0
          ELSE Len(directory[csv_files[i]].records)) + RunRecords(i + 1)

\* C10: the summary renderer is not invoked while files are being processed; in
\* a run that ends without abort it was invoked once if any group was produced
\* and not at all otherwise, with one pair per group per processed file in
\* rendering order, and its total is the number of records of the processed
\* files
C10_SummaryOnceAtEnd ==
    /\ (pc \in {"main", "groups"} => summary_calls = <<>>)
    /\ (pc = "done" =>
           IF RunStats(1) = <<>>
           THEN summary_calls = <<>>
           ELSE /\ Len(summary_calls) = 1
                /\ summary_calls[1].stats = RunStats(1)
                /\ summary_calls[1].total = RunRecords(1))

\* a run over two files with groups ended: one summary, over the records of both
C10_Witness ==
    /\ pc = "done"
    /\ Len(csv_files) = 2
    /\ Len(summary_calls) = 1
    /\ summary_calls[1].total = 5
    /\ Len(summary_calls[1].stats) = 5

====
